---- MODULE Spec2Model ----
(***************************************************************************)
(* Dual UART driver with buffer support (uart2.c, AVR series).             *)
(*                                                                         *)
(* The driver keeps, per UART, a transmit-ready flag, a buffered-transmit  *)
(* flag, a receive and a transmit ring buffer, a receive overflow counter  *)
(* and an optional receive handler.  Application code calls the uartXxx    *)
(* functions; the transmit-complete and receive-complete interrupts run    *)
(* uartTransmitService and uartReceiveService.                             *)
(*                                                                         *)
(* The specifications share the variables:                                 *)
(*   Spec     every driver function runs to completion (no interrupt is    *)
(*            serviced inside a call);                                     *)
(*   SpecTx   Spec restricted to the buffered transmit path;               *)
(*   SpecRx   Spec restricted to the receive path;                         *)
(*   SpecIrq  the call context advances one memory access at a time and    *)
(*            the interrupt handlers may run between any two of them.      *)
(*   SpecOvf  SpecRx late in a long run, the overflow counters near the    *)
(*            top of their range;                                          *)
(*   SpecLive the transmit path with fairness: calls in progress go on     *)
(*            and bytes written get their transmit-complete interrupt.     *)
(*                                                                         *)
(* The ring buffer (buffer.c) is not part of uart2.c; it is modelled from  *)
(* its description: append at the tail when length < capacity, remove at   *)
(* the head, flush by resetting the length, no locking inside.             *)
(***************************************************************************)
EXTENDS Integers, Sequences, FiniteSets, TLC

\* Buffer capacities (uart2.h sets the real ones; the model uses small ones).
UART0_RX_BUFFER_SIZE == 2
UART0_TX_BUFFER_SIZE == 4
UART1_RX_BUFFER_SIZE == 0
UART1_TX_BUFFER_SIZE == 2

\* Number of state-changing calls and events in one run: of Spec, of SpecTx
\* and of SpecRx.
MaxSteps == 3
MaxStepsTx == 4
MaxStepsRx == 5
\* Calls begun and interrupts serviced in one run of SpecIrq.
MaxStepsIrq == 4
\* Longest block handed to uartSendBuffer with a count equal to its length.
MaxBlock == 3
\* Bytes the transmitter holds before the data register reads "not empty"
\* (shift register + data register).
HwDepth == 2

Uarts == {0, 1}
Bytes == {1, 2}

Mod16(x) == x % 65536

Min(a, b) == IF a < b THEN a ELSE b

RxSize(n) == IF n = 0 THEN UART0_RX_BUFFER_SIZE ELSE UART1_RX_BUFFER_SIZE
TxSize(n) == IF n = 0 THEN UART0_TX_BUFFER_SIZE ELSE UART1_TX_BUFFER_SIZE

(***************************************************************************)
(* Ring buffer (cBuffer): dataptr[0..size-1], size, dataindex (head),      *)
(* datalength (occupancy).  The tail is (dataindex + datalength) % size.   *)
(***************************************************************************)
bufferInit(size) ==
    [dataptr |-> [i \in 0..(size - 1) |-> 0], size |-> size,
     dataindex |-> 0, datalength |-> 0]

\* The memory accesses of push_back and pop_front: store a byte at the tail,
\* read the byte at the head and advance the head, store the length.
bufferPut(b, data) ==
    [b EXCEPT !.dataptr[(b.dataindex + b.datalength) % b.size] = data]

bufferTake(b) ==
    [data |-> b.dataptr[b.dataindex],
     buf |-> [b EXCEPT !.dataindex = (b.dataindex + 1) % b.size]]

bufferSetLength(b, len) == [b EXCEPT !.datalength = len]

\* push_back: appends when there is room, reports whether it did.
bufferAddToEnd(b, data) ==
    IF b.datalength < b.size
    THEN [ok |-> TRUE, buf |-> bufferSetLength(bufferPut(b, data), b.datalength + 1)]
    ELSE [ok |-> FALSE, buf |-> b]

\* pop_front on a non-empty buffer: the oldest byte and the buffer without it.
bufferGetFromFront(b) ==
    [data |-> bufferTake(b).data,
     buf |-> bufferSetLength(bufferTake(b).buf, b.datalength - 1)]

bufferFlush(b) == [b EXCEPT !.datalength = 0]

\* The queued bytes, oldest first.
BufSeq(b) == [i \in 1..b.datalength |-> b.dataptr[(b.dataindex + i - 1) % b.size]]

(***************************************************************************)
(* State.                                                                  *)
(***************************************************************************)
VARIABLES
    uartReadyTx,      \* [Uarts -> 0..1]
    uartBufferedTx,   \* [Uarts -> 0..1]
    uartRxBuffer,     \* [Uarts -> cBuffer]
    uartTxBuffer,     \* [Uarts -> cBuffer]
    uartRxOverflow,   \* [Uarts -> 0..65535]
    UartRxFunc,       \* [Uarts -> 0..1], 0 = no handler
    UDRout,           \* [Uarts -> Seq(Bytes)], bytes written to UDRn, oldest first
    TXCpend,          \* [Uarts -> Nat], bytes written whose transmit-complete is not serviced
    handled,          \* [Uarts -> Seq(Bytes)], bytes passed to the user's receive handler
    pc,               \* position of the call context ("idle" between calls)
    loc,              \* locals of the call in progress
    accepted,         \* [Uarts -> Seq(Bytes)], bytes accepted for transmission, in order
    txNet,            \* [Uarts -> Int], accepted pushes minus pops of the transmit buffer
    rxNet,            \* [Uarts -> Int], accepted pushes minus pops of the receive buffer
    steps,            \* calls and events so far
    last              \* the call or event that produced this state

drv == <<uartReadyTx, uartBufferedTx, uartRxBuffer, uartTxBuffer, uartRxOverflow, UartRxFunc>>
hw == <<UDRout, TXCpend, handled>>
ctx == <<pc, loc>>
ghost == <<accepted, txNet, rxNet>>
vars == <<drv, hw, ctx, ghost, steps, last>>

NoLoc == [n |-> 0, buffer |-> <<>>, nBytes |-> 0, i |-> 0, data |-> 0, len |-> 0]

Idle == pc = "idle"

Rec(op, n, arg, ret) == [op |-> op, ch |-> n, arg |-> arg, ret |-> ret]

\* Bookkeeping of one call or event, to be stated after the driver's and the
\* hardware's next state.  A call that changes neither leaves no trace: steps
\* counts, and last names, the calls and events that changed something.
Tick(op, n, arg, ret) ==
    IF <<drv, hw>>' = <<drv, hw>>
    THEN UNCHANGED <<steps, last>>
    ELSE /\ steps' = steps + 1
         /\ last' = Rec(op, n, arg, ret)

(***************************************************************************)
(* One UART's share of the globals and of the hardware, as a record, so    *)
(* that a driver function is a function from this record to this record.   *)
(***************************************************************************)
Chan(n) ==
    [ReadyTx |-> uartReadyTx[n], BufferedTx |-> uartBufferedTx[n],
     Rx |-> uartRxBuffer[n], Tx |-> uartTxBuffer[n],
     RxOverflow |-> uartRxOverflow[n], RxFunc |-> UartRxFunc[n],
     UDRout |-> UDRout[n], TXCpend |-> TXCpend[n], handled |-> handled[n]]

\* Writes record c back to the globals of UART n; the other UART keeps its own.
Store(n, c) ==
    /\ uartReadyTx' = [uartReadyTx EXCEPT ![n] = c.ReadyTx]
    /\ uartBufferedTx' = [uartBufferedTx EXCEPT ![n] = c.BufferedTx]
    /\ uartRxBuffer' = [uartRxBuffer EXCEPT ![n] = c.Rx]
    /\ uartTxBuffer' = [uartTxBuffer EXCEPT ![n] = c.Tx]
    /\ uartRxOverflow' = [uartRxOverflow EXCEPT ![n] = c.RxOverflow]
    /\ UartRxFunc' = [UartRxFunc EXCEPT ![n] = c.RxFunc]
    /\ UDRout' = [UDRout EXCEPT ![n] = c.UDRout]
    /\ TXCpend' = [TXCpend EXCEPT ![n] = c.TXCpend]
    /\ handled' = [handled EXCEPT ![n] = c.handled]

\* The transmit data register empty flag of UCSRnA.
UDRE(c) == c.TXCpend < HwDepth

\* outb(UDRn, data): the byte goes out and its transmit-complete interrupt is due.
outbUDR(c, data) ==
    [c EXCEPT !.UDRout = Append(@, data), !.TXCpend = @ + 1]

(***************************************************************************)
(* The driver functions.                                                   *)
(***************************************************************************)
\* uart0Init / uart1Init.
uartNInit(c, n) ==
    [c EXCEPT !.Rx = bufferInit(RxSize(n)), !.Tx = bufferInit(TxSize(n)),
              !.RxFunc = 0, !.ReadyTx = 1, !.BufferedTx = 0,
              !.RxOverflow = 0]

\* uartSendByte sending the head of the transmit buffer ahead of its argument.
uartSendByte_ThroughBuffer(c, txData) ==
    IF c.Tx.datalength # 0
    THEN [outbUDR([c EXCEPT !.Tx = bufferAddToEnd(bufferGetFromFront(c.Tx).buf, txData).buf],
                  bufferGetFromFront(c.Tx).data)
             EXCEPT !.ReadyTx = 0]
    ELSE [outbUDR(c, txData) EXCEPT !.ReadyTx = 0]

\* The body of uartSendByte once the wait for UDRE is over.
uartSendByte(c, txData) ==
    [outbUDR(c, txData) EXCEPT !.ReadyTx = 0]

\* uartReceiveByte without the test for data in the buffer.
uartReceiveByte_NoLengthTest(c) ==
    IF c.Rx.size # 0
    THEN LET g == bufferGetFromFront(c.Rx)
         IN  [c |-> [c EXCEPT !.Rx = g.buf], ret |-> 1, rxData |-> g.data]
    ELSE [c |-> c, ret |-> 0, rxData |-> -1]

uartReceiveByte(c) ==
    IF c.Rx.size # 0
    THEN IF c.Rx.datalength # 0
         THEN LET g == bufferGetFromFront(c.Rx)
              IN  [c |-> [c EXCEPT !.Rx = g.buf], ret |-> 1, rxData |-> g.data]
         ELSE [c |-> c, ret |-> 0, rxData |-> -1]
    ELSE [c |-> c, ret |-> 0, rxData |-> -1]

\* uart0GetByte / uart1GetByte: the byte as an int, or -1.
uartNGetByte(c) ==
    LET r == uartReceiveByte(c)
    IN  IF r.ret # 0 THEN [c |-> r.c, ret |-> r.rxData] ELSE [c |-> r.c, ret |-> -1]

\* uartFlushReceiveBuffer flushing the transmit buffer.
uartFlushReceiveBuffer_FlushesTx(c) == [c EXCEPT !.Tx = bufferFlush(c.Tx)]

uartFlushReceiveBuffer(c) == [c EXCEPT !.Rx = bufferFlush(c.Rx)]

uartReceiveBufferIsEmpty(c) == IF c.Rx.datalength = 0 THEN 1 ELSE 0

uartTransmitPending(c) == IF c.ReadyTx = 0 THEN 1 ELSE 0

\* uartAddToTxBuffer overwriting the newest byte when the buffer is full.
uartAddToTxBuffer_OverwritesWhenFull(c, data) ==
    IF c.Tx.datalength < c.Tx.size
    THEN [c EXCEPT !.Tx = bufferAddToEnd(c.Tx, data).buf]
    ELSE [c EXCEPT !.Tx = bufferSetLength(
                              bufferPut(bufferSetLength(c.Tx, c.Tx.datalength - 1), data),
                              c.Tx.datalength)]

uartAddToTxBuffer(c, data) == [c EXCEPT !.Tx = bufferAddToEnd(c.Tx, data).buf]

uartSendTxBuffer(c) ==
    LET g == bufferGetFromFront(c.Tx)
    IN  uartSendByte([c EXCEPT !.BufferedTx = 1, !.Tx = g.buf], g.data)

\* The test of uartSendBuffer: the sum is an unsigned 16-bit sum (int is 16 bits
\* on the AVR, datalength and nBytes are unsigned 16-bit).
SendBufferFits(c, nBytes) ==
    Mod16(c.Tx.datalength + nBytes) < c.Tx.size /\ nBytes # 0

\* for(i = 0; i < nBytes-1; i++) bufferAddToEnd(tx, *buffer++), after first = *buffer++.
\* Once the buffer is full every further bufferAddToEnd fails and changes nothing,
\* so the remaining iterations are skipped.
RECURSIVE CopyLoop(_, _, _, _)
CopyLoop(b, buffer, i, nBytes) ==
    IF ~(i < nBytes - 1) \/ b.datalength >= b.size
    THEN b
    ELSE CopyLoop(bufferAddToEnd(b, buffer[i + 2]).buf, buffer, i + 1, nBytes)

uartSendBuffer(c, buffer, nBytes) ==
    IF SendBufferFits(c, nBytes)
    THEN [c |-> uartSendByte([c EXCEPT !.Tx = CopyLoop(c.Tx, buffer, 0, nBytes),
                                       !.BufferedTx = 1], buffer[1]),
          ret |-> 1]
    ELSE [c |-> c, ret |-> 0]

\* uartTransmitService leaving buffered mode with the byte it sends.
uartTransmitService_LeavesBufferedEarly(c) ==
    IF c.BufferedTx # 0
    THEN IF c.Tx.datalength # 0
         THEN LET g == bufferGetFromFront(c.Tx)
              IN  outbUDR([c EXCEPT !.Tx = g.buf, !.BufferedTx = 0], g.data)
         ELSE [c EXCEPT !.BufferedTx = 0, !.ReadyTx = 1]
    ELSE [c EXCEPT !.ReadyTx = 1]

\* uartTransmitService marking the transmitter ready after every byte.
uartTransmitService_ReadyEachByte(c) ==
    IF c.BufferedTx # 0
    THEN IF c.Tx.datalength # 0
         THEN LET g == bufferGetFromFront(c.Tx)
              IN  outbUDR([c EXCEPT !.Tx = g.buf, !.ReadyTx = 1], g.data)
         ELSE [c EXCEPT !.BufferedTx = 0, !.ReadyTx = 1]
    ELSE [c EXCEPT !.ReadyTx = 1]

\* The transmit-complete interrupt: its flag is cleared on entry.
uartTransmitService(c) ==
    IF c.BufferedTx # 0
    THEN IF c.Tx.datalength # 0
         THEN LET g == bufferGetFromFront(c.Tx)
              IN  outbUDR([c EXCEPT !.Tx = g.buf], g.data)
         ELSE [c EXCEPT !.BufferedTx = 0, !.ReadyTx = 1]
    ELSE [c EXCEPT !.ReadyTx = 1]

\* uartReceiveService counting an overflow although the byte was stored.
uartReceiveService_CountsStored(c, ch) ==
    IF c.RxFunc # 0
    THEN [c EXCEPT !.handled = Append(@, ch)]
    ELSE LET a == bufferAddToEnd(c.Rx, ch)
         IN  [c EXCEPT !.Rx = a.buf, !.RxOverflow = Mod16(@ + 1)]

\* uartReceiveService buffering the byte it hands to the handler.
uartReceiveService_HandlesAndBuffers(c, ch) ==
    LET a == bufferAddToEnd(c.Rx, ch)
    IN  IF c.RxFunc # 0
        THEN [c EXCEPT !.handled = Append(@, ch), !.Rx = a.buf]
        ELSE IF ~a.ok
             THEN [c EXCEPT !.RxOverflow = Mod16(@ + 1)]
             ELSE [c EXCEPT !.Rx = a.buf]

\* The receive-complete interrupt, ch the byte read from UDRn.
uartReceiveService(c, ch) ==
    IF c.RxFunc # 0
    THEN [c EXCEPT !.handled = Append(@, ch)]
    ELSE LET a == bufferAddToEnd(c.Rx, ch)
         IN  IF ~a.ok
             THEN [c EXCEPT !.RxOverflow = Mod16(@ + 1)]
             ELSE [c EXCEPT !.Rx = a.buf]

\* uartSetRxHandler installing the handler on every UART.
uartSetRxHandler_AllUarts(funcs, nUart, rx_func) ==
    IF nUart < 2 THEN [m \in DOMAIN funcs |-> rx_func] ELSE funcs

uartSetRxHandler(funcs, nUart, rx_func) ==
    IF nUart < 2 THEN [funcs EXCEPT ![nUart] = rx_func] ELSE funcs

(***************************************************************************)
(* Blocks handed to uartSendBuffer: a buffer and a count.  The count is    *)
(* the length of the buffer, or a count near the top of the 16-bit range   *)
(* (the bytes read past the ring's capacity are refused by bufferAddToEnd, *)
(* so only the first few of them matter).                                  *)
(***************************************************************************)
\* The block of k bytes that starts with byte b and alternates.
Alternating(b, k) == [i \in 1..k |-> IF i % 2 = 1 THEN b ELSE 3 - b]

LongBuffer == Alternating(1, UART0_TX_BUFFER_SIZE + UART1_TX_BUFFER_SIZE)

Blocks ==
    {[buffer |-> Alternating(b, k), nBytes |-> k] : b \in Bytes, k \in 0..MaxBlock}
    \cup {[buffer |-> LongBuffer, nBytes |-> 65535]}

\* The bytes of a block that the model follows.
BlockBytes(blk) == SubSeq(blk.buffer, 1, Min(blk.nBytes, Len(blk.buffer)))

(***************************************************************************)
(* Spec: calls and interrupts, each run to completion.                     *)
(***************************************************************************)
\* The state uartInit() leaves: both UARTs initialised, nothing sent or received.
Zeroed ==
    [ReadyTx |-> 0, BufferedTx |-> 0, Rx |-> bufferInit(0), Tx |-> bufferInit(0),
     RxOverflow |-> 0, RxFunc |-> 0, UDRout |-> <<>>, TXCpend |-> 0,
     handled |-> <<>>]

Init ==
    /\ uartReadyTx = [n \in Uarts |-> uartNInit(Zeroed, n).ReadyTx]
    /\ uartBufferedTx = [n \in Uarts |-> uartNInit(Zeroed, n).BufferedTx]
    /\ uartRxBuffer = [n \in Uarts |-> uartNInit(Zeroed, n).Rx]
    /\ uartTxBuffer = [n \in Uarts |-> uartNInit(Zeroed, n).Tx]
    /\ uartRxOverflow = [n \in Uarts |-> uartNInit(Zeroed, n).RxOverflow]
    /\ UartRxFunc = [n \in Uarts |-> uartNInit(Zeroed, n).RxFunc]
    /\ UDRout = [n \in Uarts |-> <<>>]
    /\ TXCpend = [n \in Uarts |-> 0]
    /\ handled = [n \in Uarts |-> <<>>]
    /\ pc = "idle"
    /\ loc = NoLoc
    /\ accepted = [n \in Uarts |-> <<>>]
    /\ txNet = [n \in Uarts |-> 0]
    /\ rxNet = [n \in Uarts |-> 0]
    /\ steps = 0
    /\ last = Rec("uartInit", 0, 0, 0)

SendByte(n, txData) ==
    /\ pc = "idle"
    /\ UDRE(Chan(n))
    /\ Store(n, uartSendByte(Chan(n), txData))
    /\ Tick("uartSendByte", n, txData, 0)
    /\ accepted' = [accepted EXCEPT ![n] = Append(@, txData)]
    /\ UNCHANGED <<ctx, txNet, rxNet>>

ReceiveByte(n) ==
    /\ pc = "idle"
    /\ LET r == uartReceiveByte(Chan(n))
       IN  /\ Store(n, r.c)
           /\ Tick("uartReceiveByte", n, r.rxData, r.ret)
           /\ rxNet' = [rxNet EXCEPT ![n] = @ - r.ret]
    /\ UNCHANGED <<ctx, accepted, txNet>>

GetByte(n) ==
    /\ pc = "idle"
    /\ LET r == uartNGetByte(Chan(n))
       IN  /\ Store(n, r.c)
           /\ Tick("uartGetByte", n, 0, r.ret)
           /\ rxNet' = [rxNet EXCEPT ![n] = @ - (IF r.ret = -1 THEN 0 ELSE 1)]
    /\ UNCHANGED <<ctx, accepted, txNet>>

FlushReceiveBuffer(n) ==
    /\ pc = "idle"
    /\ Store(n, uartFlushReceiveBuffer(Chan(n)))
    /\ Tick("uartFlushReceiveBuffer", n, 0, 0)
    /\ rxNet' = [rxNet EXCEPT ![n] = 0]
    /\ UNCHANGED <<ctx, accepted, txNet>>

ReceiveBufferIsEmpty(n) ==
    /\ pc = "idle"
    /\ UNCHANGED <<drv, hw, ctx, ghost>>
    /\ Tick("uartReceiveBufferIsEmpty", n, 0, uartReceiveBufferIsEmpty(Chan(n)))

TransmitPending(n) ==
    /\ pc = "idle"
    /\ UNCHANGED <<drv, hw, ctx, ghost>>
    /\ Tick("uartTransmitPending", n, 0, uartTransmitPending(Chan(n)))

AddToTxBuffer(n, data) ==
    /\ pc = "idle"
    /\ Store(n, uartAddToTxBuffer(Chan(n), data))
    /\ Tick("uartAddToTxBuffer", n, data, 0)
    /\ IF bufferAddToEnd(uartTxBuffer[n], data).ok
       THEN /\ accepted' = [accepted EXCEPT ![n] = Append(@, data)]
            /\ txNet' = [txNet EXCEPT ![n] = @ + 1]
       ELSE UNCHANGED <<accepted, txNet>>
    /\ UNCHANGED <<ctx, rxNet>>

\* The caller's side of the contract: at least one byte is queued.
SendTxBuffer(n) ==
    /\ pc = "idle"
    /\ uartTxBuffer[n].datalength > 0
    /\ UDRE(Chan(n))
    /\ Store(n, uartSendTxBuffer(Chan(n)))
    /\ Tick("uartSendTxBuffer", n, 0, 0)
    /\ txNet' = [txNet EXCEPT ![n] = @ - 1]
    /\ UNCHANGED <<ctx, accepted, rxNet>>

SendBuffer(n, blk) ==
    /\ pc = "idle"
    /\ SendBufferFits(Chan(n), blk.nBytes) => UDRE(Chan(n))
    /\ LET r == uartSendBuffer(Chan(n), blk.buffer, blk.nBytes)
       IN  /\ Store(n, r.c)
           /\ Tick("uartSendBuffer", n, blk.nBytes, r.ret)
           /\ accepted' = [accepted EXCEPT ![n] =
                              IF r.ret = 1 THEN @ \o BlockBytes(blk) ELSE @]
           /\ txNet' = [txNet EXCEPT ![n] =
                              @ + r.c.Tx.datalength - uartTxBuffer[n].datalength]
    /\ UNCHANGED <<ctx, rxNet>>

SetRxHandler(nUart, rx_func) ==
    /\ pc = "idle"
    /\ UartRxFunc' = uartSetRxHandler(UartRxFunc, nUart, rx_func)
    /\ UNCHANGED <<uartReadyTx, uartBufferedTx, uartRxBuffer, uartTxBuffer,
                   uartRxOverflow, hw, ctx, ghost>>
    /\ Tick("uartSetRxHandler", nUart, rx_func, 0)

\* SIG_UART0_TRANS / SIG_UART1_TRANS.
SIG_UART_TRANS(n) ==
    /\ TXCpend[n] > 0
    /\ LET c == [Chan(n) EXCEPT !.TXCpend = @ - 1]
           r == uartTransmitService(c)
       IN  /\ Store(n, r)
           /\ Tick("uartTransmitService", n, 0, 0)
           /\ txNet' = [txNet EXCEPT ![n] = @ - Len(r.UDRout) + Len(c.UDRout)]
    /\ UNCHANGED <<ctx, accepted, rxNet>>

\* SIG_UART0_RECV / SIG_UART1_RECV, ch the byte that arrived.
SIG_UART_RECV(n, ch) ==
    /\ LET r == uartReceiveService(Chan(n), ch)
       IN  /\ Store(n, r)
           /\ Tick("uartReceiveService", n, ch, 0)
           /\ rxNet' = [rxNet EXCEPT ![n] =
                           @ + r.Rx.datalength - uartRxBuffer[n].datalength]
    /\ UNCHANGED <<ctx, accepted, txNet>>

\* At most k state-changing calls and events in one run.
Budget(k) == steps' <= k

Next ==
    \/ \E n \in Uarts, d \in Bytes : SendByte(n, d) /\ Budget(MaxSteps)
    \/ \E n \in Uarts : ReceiveByte(n) /\ Budget(MaxSteps)
    \/ \E n \in Uarts : GetByte(n) /\ Budget(MaxSteps)
    \/ \E n \in Uarts : FlushReceiveBuffer(n) /\ Budget(MaxSteps)
    \/ \E n \in Uarts : ReceiveBufferIsEmpty(n) /\ Budget(MaxSteps)
    \/ \E n \in Uarts : TransmitPending(n) /\ Budget(MaxSteps)
    \/ \E n \in Uarts, d \in Bytes : AddToTxBuffer(n, d) /\ Budget(MaxSteps)
    \/ \E n \in Uarts : SendTxBuffer(n) /\ Budget(MaxSteps)
    \/ \E n \in Uarts, blk \in Blocks : SendBuffer(n, blk) /\ Budget(MaxSteps)
    \/ \E n \in 0..2, f \in 0..1 : SetRxHandler(n, f) /\ Budget(MaxSteps)
    \/ \E n \in Uarts : SIG_UART_TRANS(n) /\ Budget(MaxSteps)
    \/ \E n \in Uarts, ch \in Bytes : SIG_UART_RECV(n, ch) /\ Budget(MaxSteps)

Spec == Init /\ [][Next]_vars

\* The buffered transmit path alone.
NextTx ==
    \/ \E n \in Uarts, d \in Bytes : AddToTxBuffer(n, d) /\ Budget(MaxStepsTx)
    \/ \E n \in Uarts : SendTxBuffer(n) /\ Budget(MaxStepsTx)
    \/ \E n \in Uarts, blk \in Blocks : SendBuffer(n, blk) /\ Budget(MaxStepsTx)
    \/ \E n \in Uarts : SIG_UART_TRANS(n) /\ Budget(MaxStepsTx)

SpecTx == Init /\ [][NextTx]_vars

\* The receive path alone.
NextRx ==
    \/ \E n \in Uarts : ReceiveByte(n) /\ Budget(MaxStepsRx)
    \/ \E n \in Uarts : GetByte(n) /\ Budget(MaxStepsRx)
    \/ \E n \in Uarts : FlushReceiveBuffer(n) /\ Budget(MaxStepsRx)
    \/ \E n \in Uarts : ReceiveBufferIsEmpty(n) /\ Budget(MaxStepsRx)
    \/ \E n \in 0..2, f \in 0..1 : SetRxHandler(n, f) /\ Budget(MaxStepsRx)
    \/ \E n \in Uarts, ch \in Bytes : SIG_UART_RECV(n, ch) /\ Budget(MaxStepsRx)

SpecRx == Init /\ [][NextRx]_vars


\* The largest value of an unsigned short (uartRxOverflow's type).
USHRT_MAX == 65535

\* The receive path late in a long run: the state after uartInit() and
\* USHRT_MAX - 1 receive-complete interrupts on each UART that found no room
\* (each followed by uartReceiveByte calls that emptied the buffer again).
InitOvf ==
    /\ uartReadyTx = [n \in Uarts |-> uartNInit(Zeroed, n).ReadyTx]
    /\ uartBufferedTx = [n \in Uarts |-> uartNInit(Zeroed, n).BufferedTx]
    /\ uartRxBuffer = [n \in Uarts |-> uartNInit(Zeroed, n).Rx]
    /\ uartTxBuffer = [n \in Uarts |-> uartNInit(Zeroed, n).Tx]
    /\ uartRxOverflow = [n \in Uarts |-> USHRT_MAX - 1]
    /\ UartRxFunc = [n \in Uarts |-> uartNInit(Zeroed, n).RxFunc]
    /\ UDRout = [n \in Uarts |-> <<>>]
    /\ TXCpend = [n \in Uarts |-> 0]
    /\ handled = [n \in Uarts |-> <<>>]
    /\ pc = "idle"
    /\ loc = NoLoc
    /\ accepted = [n \in Uarts |-> <<>>]
    /\ txNet = [n \in Uarts |-> 0]
    /\ rxNet = [n \in Uarts |-> 0]
    /\ steps = 0
    /\ last = Rec("uartReceiveByte", 0, 0, 0)

SpecOvf == InitOvf /\ [][NextRx]_vars

(***************************************************************************)
(* SpecIrq: the call context one access to shared memory at a time.  The   *)
(* interrupt handlers run with interrupts disabled, so each is one step;   *)
(* they may run between any two steps of a call.  The ring buffer does no  *)
(* locking, and the AVR updates a variable in memory by loading it,        *)
(* changing the register and storing it, so the length update of a push or *)
(* a pop in the call context is a load and a later store.  Accesses that   *)
(* no handler can tell apart from one access are taken as one step: the    *)
(* test for room with the store at the tail and the load of the length;    *)
(* the test for data with the read at the head and the head's advance.     *)
(***************************************************************************)
Return(op, n, arg, ret) ==
    /\ pc' = "idle"
    /\ loc' = NoLoc
    /\ last' = Rec(op, n, arg, ret)

\* uartReceiveByte: the tests, and bufferGetFromFront up to the head's advance.
IrqReceiveByte(n) ==
    /\ Idle
    /\ uartRxBuffer[n].size # 0
    /\ uartRxBuffer[n].datalength # 0
    /\ uartRxBuffer' = [uartRxBuffer EXCEPT ![n] = bufferTake(@).buf]
    /\ loc' = [NoLoc EXCEPT !.n = n, !.data = bufferTake(uartRxBuffer[n]).data]
    /\ pc' = "rb_load"
    /\ steps' = steps + 1
    /\ UNCHANGED <<uartReadyTx, uartBufferedTx, uartTxBuffer, uartRxOverflow,
                   UartRxFunc, hw, ghost, last>>

\* bufferGetFromFront: datalength is loaded ...
IrqReceiveByteLoad ==
    /\ pc = "rb_load"
    /\ loc' = [loc EXCEPT !.len = uartRxBuffer[loc.n].datalength]
    /\ pc' = "rb_store"
    /\ UNCHANGED <<drv, hw, ghost, steps, last>>

\* ... and stored one less; uartReceiveByte returns 1.
IrqReceiveByteStore ==
    /\ pc = "rb_store"
    /\ uartRxBuffer' = [uartRxBuffer EXCEPT ![loc.n] = bufferSetLength(@, loc.len - 1)]
    /\ rxNet' = [rxNet EXCEPT ![loc.n] = @ - 1]
    /\ Return("uartReceiveByte", loc.n, loc.data, 1)
    /\ UNCHANGED <<uartReadyTx, uartBufferedTx, uartTxBuffer, uartRxOverflow,
                   UartRxFunc, hw, accepted, txNet, steps>>

\* uartAddToTxBuffer: bufferAddToEnd up to the load of datalength.
IrqAddToTxBuffer(n, data) ==
    /\ Idle
    /\ uartTxBuffer[n].datalength < uartTxBuffer[n].size
    /\ uartTxBuffer' = [uartTxBuffer EXCEPT ![n] = bufferPut(@, data)]
    /\ loc' = [NoLoc EXCEPT !.n = n, !.data = data, !.len = uartTxBuffer[n].datalength]
    /\ pc' = "at_store"
    /\ steps' = steps + 1
    /\ UNCHANGED <<uartReadyTx, uartBufferedTx, uartRxBuffer, uartRxOverflow,
                   UartRxFunc, hw, ghost, last>>

\* bufferAddToEnd: datalength is stored one more; uartAddToTxBuffer returns.
IrqAddToTxBufferStore ==
    /\ pc = "at_store"
    /\ uartTxBuffer' = [uartTxBuffer EXCEPT ![loc.n] = bufferSetLength(@, loc.len + 1)]
    /\ txNet' = [txNet EXCEPT ![loc.n] = @ + 1]
    /\ accepted' = [accepted EXCEPT ![loc.n] = Append(@, loc.data)]
    /\ Return("uartAddToTxBuffer", loc.n, loc.data, 0)
    /\ UNCHANGED <<uartReadyTx, uartBufferedTx, uartRxBuffer, uartRxOverflow,
                   UartRxFunc, hw, rxNet, steps>>

\* Where uartSendBuffer goes after i bytes of the block are copied: the loop
\* counter and the count are in registers.
AfterCopy(i, nBytes) == IF i < nBytes - 1 THEN "sb_push" ELSE "sb_flag"

\* uartSendBuffer: the test for space, and first = *buffer++.
IrqSendBuffer(n, blk) ==
    /\ Idle
    /\ SendBufferFits(Chan(n), blk.nBytes)
    /\ loc' = [NoLoc EXCEPT !.n = n, !.buffer = blk.buffer, !.nBytes = blk.nBytes,
                            !.data = blk.buffer[1]]
    /\ pc' = AfterCopy(0, blk.nBytes)
    /\ steps' = steps + 1
    /\ UNCHANGED <<drv, hw, ghost, last>>

\* The loop body, bufferAddToEnd up to the load of datalength; a byte that
\* finds the buffer full is refused.
IrqSendBufferPush ==
    /\ pc = "sb_push"
    /\ IF uartTxBuffer[loc.n].datalength < uartTxBuffer[loc.n].size
       THEN /\ uartTxBuffer' = [uartTxBuffer EXCEPT ![loc.n] = bufferPut(@, loc.buffer[loc.i + 2])]
            /\ loc' = [loc EXCEPT !.len = uartTxBuffer[loc.n].datalength]
            /\ pc' = "sb_store"
       ELSE /\ loc' = [loc EXCEPT !.i = @ + 1]
            /\ pc' = AfterCopy(loc.i + 1, loc.nBytes)
            /\ UNCHANGED uartTxBuffer
    /\ UNCHANGED <<uartReadyTx, uartBufferedTx, uartRxBuffer, uartRxOverflow,
                   UartRxFunc, hw, ghost, steps, last>>

\* bufferAddToEnd: datalength is stored one more; i++.
IrqSendBufferStore ==
    /\ pc = "sb_store"
    /\ uartTxBuffer' = [uartTxBuffer EXCEPT ![loc.n] = bufferSetLength(@, loc.len + 1)]
    /\ txNet' = [txNet EXCEPT ![loc.n] = @ + 1]
    /\ loc' = [loc EXCEPT !.i = @ + 1]
    /\ pc' = AfterCopy(loc.i + 1, loc.nBytes)
    /\ UNCHANGED <<uartReadyTx, uartBufferedTx, uartRxBuffer, uartRxOverflow,
                   UartRxFunc, hw, accepted, rxNet, steps, last>>

\* uartBufferedTx[nUart] = 1.
IrqSendBufferFlag ==
    /\ pc = "sb_flag"
    /\ uartBufferedTx' = [uartBufferedTx EXCEPT ![loc.n] = 1]
    /\ pc' = "sb_send"
    /\ UNCHANGED <<uartReadyTx, uartRxBuffer, uartTxBuffer, uartRxOverflow,
                   UartRxFunc, hw, loc, ghost, steps, last>>

\* uartSendByte: the wait for UDRE is over and the first byte is written.
IrqSendBufferSend ==
    /\ pc = "sb_send"
    /\ UDRE(Chan(loc.n))
    /\ UDRout' = [UDRout EXCEPT ![loc.n] = outbUDR(Chan(loc.n), loc.data).UDRout]
    /\ TXCpend' = [TXCpend EXCEPT ![loc.n] = outbUDR(Chan(loc.n), loc.data).TXCpend]
    /\ pc' = "sb_ready"
    /\ UNCHANGED <<drv, handled, loc, ghost, steps, last>>

\* uartSendByte: uartReadyTx[nUart] = 0; uartSendBuffer returns 1.
IrqSendBufferReady ==
    /\ pc = "sb_ready"
    /\ uartReadyTx' = [uartReadyTx EXCEPT ![loc.n] = 0]
    /\ accepted' = [accepted EXCEPT ![loc.n] = @ \o SubSeq(loc.buffer, 1, loc.nBytes)]
    /\ Return("uartSendBuffer", loc.n, loc.nBytes, 1)
    /\ UNCHANGED <<uartBufferedTx, uartRxBuffer, uartTxBuffer, uartRxOverflow,
                   UartRxFunc, hw, txNet, rxNet, steps>>

\* An outcome of bufferGetFromFront on an empty buffer, which its contract
\* leaves undefined: a guarded implementation returns 0 and changes nothing, an
\* unguarded one reads the stale byte at the head and advances the head (its
\* decrement of datalength follows as for any pop).
PopEmptyOutcomes == {"guarded", "unguarded"}

\* uartSendTxBuffer, called with at least one byte queued: uartBufferedTx[nUart] = 1.
IrqSendTxBuffer(n) ==
    /\ Idle
    /\ uartTxBuffer[n].datalength > 0
    /\ uartBufferedTx' = [uartBufferedTx EXCEPT ![n] = 1]
    /\ loc' = [NoLoc EXCEPT !.n = n]
    /\ pc' = "st_take"
    /\ steps' = steps + 1
    /\ UNCHANGED <<uartReadyTx, uartRxBuffer, uartTxBuffer, uartRxOverflow,
                   UartRxFunc, hw, ghost, last>>

\* bufferGetFromFront up to the head's advance.
IrqSendTxBufferTake ==
    /\ pc = "st_take"
    /\ \E o \in PopEmptyOutcomes :
          IF uartTxBuffer[loc.n].datalength > 0 \/ o = "unguarded"
          THEN /\ uartTxBuffer' = [uartTxBuffer EXCEPT ![loc.n] = bufferTake(@).buf]
               /\ loc' = [loc EXCEPT !.data = bufferTake(uartTxBuffer[loc.n]).data]
               /\ pc' = "st_load"
          ELSE /\ loc' = [loc EXCEPT !.data = 0]
               /\ pc' = "st_send"
               /\ UNCHANGED uartTxBuffer
    /\ UNCHANGED <<uartReadyTx, uartBufferedTx, uartRxBuffer, uartRxOverflow,
                   UartRxFunc, hw, ghost, steps, last>>

\* bufferGetFromFront: datalength is loaded ...
IrqSendTxBufferLoad ==
    /\ pc = "st_load"
    /\ loc' = [loc EXCEPT !.len = uartTxBuffer[loc.n].datalength]
    /\ pc' = "st_store"
    /\ UNCHANGED <<drv, hw, ghost, steps, last>>

\* ... and stored one less (an unsigned 16-bit decrement).
IrqSendTxBufferStore ==
    /\ pc = "st_store"
    /\ uartTxBuffer' = [uartTxBuffer EXCEPT ![loc.n] = bufferSetLength(@, Mod16(loc.len - 1))]
    /\ txNet' = [txNet EXCEPT ![loc.n] = @ - 1]
    /\ pc' = "st_send"
    /\ UNCHANGED <<uartReadyTx, uartBufferedTx, uartRxBuffer, uartRxOverflow,
                   UartRxFunc, hw, loc, accepted, rxNet, steps, last>>

\* uartSendByte: the wait for UDRE is over and the byte is written.
IrqSendTxBufferSend ==
    /\ pc = "st_send"
    /\ UDRE(Chan(loc.n))
    /\ UDRout' = [UDRout EXCEPT ![loc.n] = outbUDR(Chan(loc.n), loc.data).UDRout]
    /\ TXCpend' = [TXCpend EXCEPT ![loc.n] = outbUDR(Chan(loc.n), loc.data).TXCpend]
    /\ pc' = "st_ready"
    /\ UNCHANGED <<drv, handled, loc, ghost, steps, last>>

\* uartSendByte: uartReadyTx[nUart] = 0; uartSendTxBuffer returns.
IrqSendTxBufferReady ==
    /\ pc = "st_ready"
    /\ uartReadyTx' = [uartReadyTx EXCEPT ![loc.n] = 0]
    /\ Return("uartSendTxBuffer", loc.n, 0, 0)
    /\ UNCHANGED <<uartBufferedTx, uartRxBuffer, uartTxBuffer, uartRxOverflow,
                   UartRxFunc, hw, ghost, steps>>

\* uartSendByte: the wait for UDRE is over and the byte is written.
IrqSendByte(n, txData) ==
    /\ Idle
    /\ UDRE(Chan(n))
    /\ UDRout' = [UDRout EXCEPT ![n] = outbUDR(Chan(n), txData).UDRout]
    /\ TXCpend' = [TXCpend EXCEPT ![n] = outbUDR(Chan(n), txData).TXCpend]
    /\ loc' = [NoLoc EXCEPT !.n = n, !.data = txData]
    /\ pc' = "by_ready"
    /\ steps' = steps + 1
    /\ UNCHANGED <<drv, handled, ghost, last>>

\* uartSendByte: uartReadyTx[nUart] = 0; return.
IrqSendByteReady ==
    /\ pc = "by_ready"
    /\ uartReadyTx' = [uartReadyTx EXCEPT ![loc.n] = 0]
    /\ accepted' = [accepted EXCEPT ![loc.n] = Append(@, loc.data)]
    /\ Return("uartSendByte", loc.n, loc.data, 0)
    /\ UNCHANGED <<uartBufferedTx, uartRxBuffer, uartTxBuffer, uartRxOverflow,
                   UartRxFunc, hw, txNet, rxNet, steps>>

\* Blocks whose count is their length.
ShortBlocks == {blk \in Blocks : blk.nBytes = Len(blk.buffer)}

NextIrq ==
    \/ \E n \in Uarts : IrqReceiveByte(n) /\ Budget(MaxStepsIrq)
    \/ IrqReceiveByteLoad
    \/ IrqReceiveByteStore
    \/ \E n \in Uarts, d \in Bytes : IrqAddToTxBuffer(n, d) /\ Budget(MaxStepsIrq)
    \/ IrqAddToTxBufferStore
    \/ \E n \in Uarts, blk \in ShortBlocks : IrqSendBuffer(n, blk) /\ Budget(MaxStepsIrq)
    \/ IrqSendBufferPush
    \/ IrqSendBufferStore
    \/ IrqSendBufferFlag
    \/ IrqSendBufferSend
    \/ IrqSendBufferReady
    \/ \E n \in Uarts : IrqSendTxBuffer(n) /\ Budget(MaxStepsIrq)
    \/ IrqSendTxBufferTake
    \/ IrqSendTxBufferLoad
    \/ IrqSendTxBufferStore
    \/ IrqSendTxBufferSend
    \/ IrqSendTxBufferReady
    \/ \E n \in Uarts, d \in Bytes : IrqSendByte(n, d) /\ Budget(MaxStepsIrq)
    \/ IrqSendByteReady
    \/ \E n \in Uarts : SIG_UART_TRANS(n) /\ Budget(MaxStepsIrq)
    \/ \E n \in Uarts, ch \in Bytes : SIG_UART_RECV(n, ch) /\ Budget(MaxStepsIrq)

SpecIrq == Init /\ [][NextIrq]_vars

(***************************************************************************)
(* SpecLive: the transmit path with the hardware and the processor doing   *)
(* their part.  uartSendByte and uartSendBuffer advance one step at a      *)
(* time, uartAddToTxBuffer and uartSendTxBuffer run without interruption.  *)
(* A call in progress goes on (the processor executes it whenever no       *)
(* handler runs), and a byte written to UDRn is followed by its            *)
(* transmit-complete interrupt (the transmitter shifts it out and the      *)
(* interrupt is enabled).  The application starts a bounded number of      *)
(* calls and is never obliged to start one.                                *)
(***************************************************************************)
LiveCalls ==
    \/ \E n \in Uarts, d \in Bytes : IrqSendByte(n, d) /\ Budget(MaxSteps)
    \/ \E n \in Uarts, d \in Bytes : AddToTxBuffer(n, d) /\ Budget(MaxSteps)
    \/ \E n \in Uarts : SendTxBuffer(n) /\ Budget(MaxSteps)
    \/ \E n \in Uarts, blk \in ShortBlocks : IrqSendBuffer(n, blk) /\ Budget(MaxSteps)

\* The steps that continue a call in progress.
CallSteps ==
    \/ IrqSendByteReady
    \/ IrqSendBufferPush
    \/ IrqSendBufferStore
    \/ IrqSendBufferFlag
    \/ IrqSendBufferSend
    \/ IrqSendBufferReady

NextLive ==
    \/ LiveCalls
    \/ CallSteps
    \/ \E n \in Uarts : SIG_UART_TRANS(n)

SpecLive ==
    /\ Init
    /\ [][NextLive]_vars
    /\ WF_vars(CallSteps)
    /\ \A n \in Uarts : WF_vars(SIG_UART_TRANS(n))

(***************************************************************************)
(* Properties.                                                             *)
(***************************************************************************)
IsPrefix(p, q) == Len(p) <= Len(q) /\ SubSeq(q, 1, Len(p)) = p

\* The step is a call of op on UART n, or that interrupt of UART n.
StepOf(op, n) == steps' = steps + 1 /\ last'.op = op /\ last'.ch = n

\* The step is that interrupt of UART n (an interrupt leaves the call context
\* where it is; a call that begins or ends moves it).
HandlerStep(op, n) == StepOf(op, n) /\ UNCHANGED ctx

\* C1: over uartAddToTxBuffer, uartSendBuffer, uartSendTxBuffer and the
\* transmit-complete interrupt, the bytes written to UDRn are the accepted bytes
\* in the order they were accepted: what was written is always a prefix of
\* what was accepted.
C1_TransmitInAcceptedOrder ==
    \A n \in Uarts : IsPrefix(UDRout[n], accepted[n])

\* C2: uartSendBuffer reports success exactly when the true sum of the
\* occupancy and the count is below the capacity and the count is not zero.
C2_SuccessIffTrueSumFits ==
    \A n \in Uarts, blk \in Blocks :
        (uartSendBuffer(Chan(n), blk.buffer, blk.nBytes).ret = 1)
            <=> (/\ uartTxBuffer[n].datalength + blk.nBytes < uartTxBuffer[n].size
                 /\ blk.nBytes > 0)

\* C3: uartSendBuffer is all-or-nothing: a call that reports failure changes
\* nothing, and after a call that reports success each of the nBytes bytes was
\* written to UDRn or is stored in the transmit buffer.
C3_AllOrNothing ==
    /\ [](\A n \in Uarts, blk \in Blocks :
            LET r == uartSendBuffer(Chan(n), blk.buffer, blk.nBytes)
            IN  r.ret = 0 => r.c = Chan(n))
    /\ [][\A n \in Uarts :
            (StepOf("uartSendBuffer", n) /\ last'.ret = 1) =>
                (Len(UDRout'[n]) - Len(UDRout[n]))
                  + (uartTxBuffer'[n].datalength - uartTxBuffer[n].datalength)
                = last'.arg]_vars

\* C4: right after a successful uartSendBuffer of nBytes bytes with k bytes
\* queued before, uartBufferedTx is 1, uartReadyTx is 0, one byte has been
\* written to UDRn and the transmit buffer holds k + nBytes - 1 bytes.
C4_AfterSendBuffer ==
    [][\A n \in Uarts :
        (StepOf("uartSendBuffer", n) /\ last'.ret = 1) =>
            /\ uartBufferedTx'[n] = 1
            /\ uartReadyTx'[n] = 0
            /\ Len(UDRout'[n]) = Len(UDRout[n]) + 1
            /\ uartTxBuffer'[n].datalength
                 = uartTxBuffer[n].datalength + last'.arg - 1]_vars

\* C5: with uartBufferedTx set, each transmit-complete interrupt that finds a
\* byte queued writes the oldest queued byte to UDRn, keeps the others in
\* order and leaves uartReadyTx 0; the one that finds the buffer empty writes
\* nothing, sets uartReadyTx from 0 to 1 and clears uartBufferedTx.
C5_DrainInFifoOrder ==
    /\ [](\A n \in Uarts : uartBufferedTx[n] = 1 => uartReadyTx[n] = 0)
    /\ [][\A n \in Uarts :
            (StepOf("uartTransmitService", n) /\ uartBufferedTx[n] = 1) =>
                IF uartTxBuffer[n].datalength > 0
                THEN /\ UDRout'[n] = Append(UDRout[n], Head(BufSeq(uartTxBuffer[n])))
                     /\ BufSeq(uartTxBuffer'[n]) = Tail(BufSeq(uartTxBuffer[n]))
                     /\ uartReadyTx'[n] = 0
                     /\ uartBufferedTx'[n] = 1
                ELSE /\ UDRout'[n] = UDRout[n]
                     /\ uartReadyTx[n] = 0 /\ uartReadyTx'[n] = 1
                     /\ uartBufferedTx'[n] = 0]_vars

\* C5 witness: a block of three bytes was sent on UART0, its first byte by the
\* call and the two queued ones by two interrupts, and a third interrupt found
\* the buffer empty.
C5_Witness ==
    /\ last.op = "uartTransmitService" /\ last.ch = 0
    /\ uartReadyTx[0] = 1 /\ uartBufferedTx[0] = 0
    /\ accepted[0] = <<1, 2, 1>> /\ UDRout[0] = <<1, 2, 1>>
    /\ steps = 4 /\ TXCpend[0] = 0

C7_HandlerReplacesBuffering ==
    /\ [][\A n \in Uarts :
            StepOf("uartReceiveService", n) =>
                IF UartRxFunc[n] # 0
                THEN /\ handled'[n] = Append(handled[n], last'.arg)
                     /\ uartRxBuffer'[n] = uartRxBuffer[n]
                     /\ uartRxOverflow'[n] = uartRxOverflow[n]
                ELSE /\ handled'[n] = handled[n]
                     /\ \/ BufSeq(uartRxBuffer'[n]) = Append(BufSeq(uartRxBuffer[n]), last'.arg)
                        \/ uartRxOverflow'[n] = uartRxOverflow[n] + 1]_vars
    /\ [][\A n \in Uarts :
            StepOf("uartSetRxHandler", n) =>
                /\ UartRxFunc'[n] = last'.arg
                /\ \A m \in Uarts \ {n} : UartRxFunc'[m] = UartRxFunc[m]]_vars

\* C7 witness: the handler of UART0 got a byte while the receive buffer was full.
C7_Witness ==
    /\ last.op = "uartReceiveService" /\ last.ch = 0
    /\ UartRxFunc[0] # 0
    /\ handled[0] # <<>>
    /\ uartRxBuffer[0].size > 0
    /\ uartRxBuffer[0].datalength = uartRxBuffer[0].size

\* C9: on an empty receive buffer, or one of capacity 0, uartReceiveByte
\* returns 0 and uart0GetByte / uart1GetByte return -1, which is no byte value,
\* and nothing changes; on a buffer holding bytes they return the oldest byte
\* and remove it, and when it was the only byte the next call reports no data.
C9_NoDataSentinel ==
    /\ [](\A n \in Uarts :
            (uartRxBuffer[n].size = 0 \/ uartRxBuffer[n].datalength = 0) =>
                /\ uartReceiveByte(Chan(n)).ret = 0
                /\ uartReceiveByte(Chan(n)).c = Chan(n)
                /\ uartNGetByte(Chan(n)).ret = -1
                /\ uartNGetByte(Chan(n)).ret \notin 0..255
                /\ uartNGetByte(Chan(n)).c = Chan(n))
    /\ [][\A n \in Uarts :
            (StepOf("uartReceiveByte", n) \/ StepOf("uartGetByte", n)) =>
                /\ uartRxBuffer[n].datalength > 0
                /\ IF last'.op = "uartReceiveByte"
                   THEN last'.ret = 1 /\ last'.arg = Head(BufSeq(uartRxBuffer[n]))
                   ELSE last'.ret = Head(BufSeq(uartRxBuffer[n])) /\ last'.ret \in 0..255
                /\ BufSeq(uartRxBuffer'[n]) = Tail(BufSeq(uartRxBuffer[n]))
                /\ uartRxBuffer[n].datalength = 1 =>
                      /\ uartReceiveByte(Chan(n))'.ret = 0
                      /\ uartNGetByte(Chan(n))'.ret = -1]_vars

\* C9 witness: one byte was received and uart0GetByte has just returned it.
C9_Witness ==
    /\ last.op = "uartGetByte" /\ last.ch = 0 /\ last.ret \in Bytes
    /\ steps = 2
    /\ uartRxBuffer[0].datalength = 0
    /\ uartNGetByte(Chan(0)).ret = -1

\* C10: whatever the receive buffer holds, after uartFlushReceiveBuffer
\* uartReceiveBufferIsEmpty returns true and uartReceiveByte reports no data,
\* and the flush leaves the transmit buffer, uartReadyTx, uartBufferedTx and
\* uartRxOverflow as they were.
C10_FlushEmptiesReceiveOnly ==
    /\ [](\A n \in Uarts :
            LET f == uartFlushReceiveBuffer(Chan(n))
            IN  /\ uartReceiveBufferIsEmpty(f) = 1
                /\ uartReceiveByte(f).ret = 0
                /\ uartNGetByte(f).ret = -1
                /\ f.Tx = uartTxBuffer[n]
                /\ f.ReadyTx = uartReadyTx[n]
                /\ f.BufferedTx = uartBufferedTx[n]
                /\ f.RxOverflow = uartRxOverflow[n])
    /\ [][\A n \in Uarts :
            StepOf("uartFlushReceiveBuffer", n) =>
                /\ uartReceiveBufferIsEmpty(Chan(n))' = 1
                /\ uartReceiveByte(Chan(n))'.ret = 0
                /\ uartTxBuffer' = uartTxBuffer
                /\ uartReadyTx' = uartReadyTx
                /\ uartBufferedTx' = uartBufferedTx
                /\ uartRxOverflow' = uartRxOverflow]_vars

\* C10 witness: UART0's receive buffer held bytes, its transmit buffer holds
\* some, and the receive buffer has just been flushed.
C10_Witness ==
    /\ last.op = "uartFlushReceiveBuffer" /\ last.ch = 0
    /\ uartRxBuffer[0].datalength = 0
    /\ uartTxBuffer[0].datalength > 0


\* C8: with the interrupt handlers running between any two steps of
\* uartReceiveByte, uartAddToTxBuffer and uartSendBuffer, whenever no call is
\* in progress each buffer's occupancy is its accepted pushes minus its pops
\* and lies between 0 and the capacity.
C8_OccupancyIsPushesMinusPops ==
    Idle => \A n \in Uarts :
        /\ uartTxBuffer[n].datalength = txNet[n]
        /\ uartRxBuffer[n].datalength = rxNet[n]
        /\ uartTxBuffer[n].datalength \in 0..uartTxBuffer[n].size
        /\ uartRxBuffer[n].datalength \in 0..uartRxBuffer[n].size

\* C11: whenever no call is in progress, uartReadyTx is 1 exactly when no byte
\* written to UDRn still awaits its transmit-complete interrupt, so
\* uartTransmitPending returns true exactly when a byte is in flight, with the
\* transmit-complete interrupt free to run between any two steps of a call.
C11_ReadyIffNothingInFlight ==
    Idle => \A n \in Uarts :
        /\ uartReadyTx[n] = 1 <=> TXCpend[n] = 0
        /\ uartTransmitPending(Chan(n)) = 1 <=> TXCpend[n] > 0

\* C13: bufferGetFromFront never runs on an empty buffer: uartSendTxBuffer,
\* called with a byte queued, still finds one when it removes the head, with
\* the transmit-complete interrupt free to run after uartBufferedTx is set;
\* and the interrupt and uartReceiveByte remove a byte only from a buffer
\* that holds one.
C13_NoPopOnEmpty ==
    /\ [](pc = "st_take" => uartTxBuffer[loc.n].datalength > 0)
    /\ [][\A n \in Uarts :
            /\ (HandlerStep("uartTransmitService", n) /\ Len(UDRout'[n]) > Len(UDRout[n]))
                   => uartTxBuffer[n].datalength > 0
            /\ (pc = "idle" /\ pc' = "rb_load" /\ loc'.n = n)
                   => uartRxBuffer[n].datalength > 0]_vars

\* C20: while uartSendBuffer has not yet written the block's first byte, a
\* transmit-complete interrupt writes no later byte of the block to UDRn: the
\* byte it takes from the buffer was queued before the block (the buffer holds
\* more bytes than the block has stored so far).
C20_BlockInOrderUnderPreemption ==
    [][\A n \in Uarts :
        (/\ pc \in {"sb_push", "sb_store", "sb_flag", "sb_send"}
         /\ loc.n = n
         /\ HandlerStep("uartTransmitService", n)
         /\ Len(UDRout'[n]) > Len(UDRout[n]))
            => uartTxBuffer[n].datalength > loc.i]_vars

\* C12: after uartSendBuffer has returned success, or uartSendTxBuffer has
\* returned, and with every byte written to UDRn followed by its
\* transmit-complete interrupt, the UART reaches the state where the transmit
\* buffer is empty, uartBufferedTx is 0 and uartReadyTx is 1.
C12_EventuallyDrained ==
    \A n \in Uarts :
        (/\ Idle
         /\ last.ch = n
         /\ \/ last.op = "uartSendBuffer" /\ last.ret = 1
            \/ last.op = "uartSendTxBuffer")
        ~> (/\ uartTxBuffer[n].datalength = 0
            /\ uartBufferedTx[n] = 0
            /\ uartReadyTx[n] = 1)

\* C14: each ring buffer has one producing and one consuming context: the
\* transmit buffer grows only in uartAddToTxBuffer and uartSendBuffer and
\* shrinks only in the transmit-complete interrupt; the receive buffer grows
\* only in the receive-complete interrupt and shrinks only in uartReceiveByte,
\* uart0GetByte / uart1GetByte and uartFlushReceiveBuffer.
C14_OneProducerOneConsumer ==
    [][\A n \in Uarts :
        /\ uartTxBuffer'[n].datalength > uartTxBuffer[n].datalength
              => last'.op \in {"uartAddToTxBuffer", "uartSendBuffer"}
        /\ uartTxBuffer'[n].datalength < uartTxBuffer[n].datalength
              => last'.op = "uartTransmitService"
        /\ uartRxBuffer'[n].datalength > uartRxBuffer[n].datalength
              => last'.op = "uartReceiveService"
        /\ uartRxBuffer'[n].datalength < uartRxBuffer[n].datalength
              => last'.op \in {"uartReceiveByte", "uartGetByte",
                               "uartFlushReceiveBuffer"}]_vars

\* C15: uartBufferedTx goes from 0 to 1 only in uartSendTxBuffer and
\* uartSendBuffer, and from 1 to 0 only in a transmit-complete interrupt that
\* finds the transmit buffer empty; uartReadyTx goes from 0 to 1 only in the
\* transmit-complete interrupt; uartAddToTxBuffer, uartReceiveByte,
\* uart0GetByte / uart1GetByte, uartFlushReceiveBuffer, the two queries,
\* uartSetRxHandler and the receive-complete interrupt change neither flag.
C15_FlagWriters ==
    [][\A n \in Uarts :
        /\ (uartBufferedTx[n] = 0 /\ uartBufferedTx'[n] = 1)
              => /\ last'.op \in {"uartSendTxBuffer", "uartSendBuffer"}
                 /\ last'.ch = n
        /\ (uartBufferedTx[n] = 1 /\ uartBufferedTx'[n] = 0)
              => /\ last'.op = "uartTransmitService"
                 /\ last'.ch = n
                 /\ uartTxBuffer[n].datalength = 0
        /\ (uartReadyTx[n] = 0 /\ uartReadyTx'[n] = 1)
              => /\ last'.op = "uartTransmitService"
                 /\ last'.ch = n
        /\ (/\ steps' = steps + 1
            /\ last'.op \in {"uartAddToTxBuffer", "uartReceiveByte", "uartGetByte",
                              "uartFlushReceiveBuffer", "uartReceiveBufferIsEmpty",
                              "uartTransmitPending", "uartSetRxHandler",
                              "uartReceiveService"})
              => UNCHANGED <<uartReadyTx, uartBufferedTx>>]_vars

\* C15 witness: a block of two bytes was sent on UART0 and the second
\* transmit-complete interrupt found the buffer empty, cleared uartBufferedTx
\* and set uartReadyTx.
C15_Witness ==
    /\ last.op = "uartTransmitService" /\ last.ch = 0
    /\ steps = 3
    /\ UDRout[0] = <<1, 2>> /\ TXCpend[0] = 0
    /\ uartTxBuffer[0].datalength = 0
    /\ uartBufferedTx[0] = 0 /\ uartReadyTx[0] = 1

\* C16: uartRxOverflow never decreases, and a receive-complete interrupt
\* whose byte cannot be stored (no handler, buffer full) adds exactly 1 to it.
C16_OverflowMonotone ==
    [][\A n \in Uarts :
        /\ uartRxOverflow'[n] >= uartRxOverflow[n]
        /\ (/\ HandlerStep("uartReceiveService", n)
            /\ UartRxFunc[n] = 0
            /\ uartRxBuffer[n].datalength >= uartRxBuffer[n].size)
              => uartRxOverflow'[n] = uartRxOverflow[n] + 1]_vars

\* C17: the two UARTs are independent: a call or an interrupt for UART n
\* leaves the other UART's receive buffer, transmit buffer, uartReadyTx,
\* uartBufferedTx, uartRxOverflow, receive handler and data register as they
\* were.
C17_ChannelsIndependent ==
    [][\A n \in Uarts :
        (steps' = steps + 1 /\ last'.ch = n) => Chan(1 - n)' = Chan(1 - n)]_vars

\* C17 witness: UART1 holds a queued byte while a transmit-complete interrupt
\* is serviced on UART0.
C17_Witness ==
    /\ last.op = "uartTransmitService" /\ last.ch = 0
    /\ uartReadyTx[0] = 1 /\ UDRout[0] # <<>>
    /\ uartTxBuffer[1].datalength = 1

\* C18: uartSendByte writes its argument to UDRn only when the data register
\* is empty, sets uartReadyTx to 0 and leaves the transmit buffer and
\* uartBufferedTx as they were; with uartBufferedTx 0 the next
\* transmit-complete interrupt sets uartReadyTx to 1 and writes nothing.
C18_SendByteBypassesBuffer ==
    [][\A n \in Uarts :
        /\ StepOf("uartSendByte", n)
              => /\ UDRE(Chan(n))
                 /\ UDRout'[n] = Append(UDRout[n], last'.arg)
                 /\ uartReadyTx'[n] = 0
                 /\ uartTxBuffer'[n] = uartTxBuffer[n]
                 /\ uartBufferedTx'[n] = uartBufferedTx[n]
        /\ (StepOf("uartTransmitService", n) /\ uartBufferedTx[n] = 0)
              => /\ uartReadyTx'[n] = 1
                 /\ UDRout'[n] = UDRout[n]
                 /\ uartTxBuffer'[n] = uartTxBuffer[n]
                 /\ uartBufferedTx'[n] = 0]_vars

\* C18 witness: with a byte queued in UART0's transmit buffer, uartSendByte
\* sent byte 2 and its transmit-complete interrupt was serviced in
\* single-byte mode; the queued byte is still there.
C18_Witness ==
    /\ last.op = "uartTransmitService" /\ last.ch = 0
    /\ steps = 3
    /\ UDRout[0] = <<2>> /\ TXCpend[0] = 0
    /\ BufSeq(uartTxBuffer[0]) = <<1>>
    /\ uartBufferedTx[0] = 0 /\ uartReadyTx[0] = 1

\* C19: uartAddToTxBuffer never starts sending: it writes nothing to UDRn and
\* leaves uartReadyTx and uartBufferedTx as they were; with room in the
\* transmit buffer the byte is appended at the tail and the occupancy grows by
\* 1, and with the buffer full nothing changes at all (the byte is dropped and
\* the caller is told nothing: the function returns void).
C19_EnqueueOnly ==
    /\ [](\A n \in Uarts, d \in Bytes :
            LET r == uartAddToTxBuffer(Chan(n), d)
            IN  /\ r.UDRout = UDRout[n] /\ r.TXCpend = TXCpend[n]
                /\ r.ReadyTx = uartReadyTx[n]
                /\ r.BufferedTx = uartBufferedTx[n]
                /\ IF uartTxBuffer[n].datalength < uartTxBuffer[n].size
                   THEN /\ r.Tx.datalength = uartTxBuffer[n].datalength + 1
                        /\ BufSeq(r.Tx) = Append(BufSeq(uartTxBuffer[n]), d)
                   ELSE r = Chan(n))
    /\ [][\A n \in Uarts :
            StepOf("uartAddToTxBuffer", n) =>
                /\ uartTxBuffer[n].datalength < uartTxBuffer[n].size
                /\ BufSeq(uartTxBuffer'[n]) = Append(BufSeq(uartTxBuffer[n]), last'.arg)
                /\ UNCHANGED <<uartReadyTx, uartBufferedTx, hw>>]_vars

\* C19 witness: uartAddToTxBuffer has filled UART1's transmit buffer with
\* bytes 1 and 2, so that a further byte would be dropped; nothing was sent.
C19_Witness ==
    /\ last.op = "uartAddToTxBuffer" /\ last.ch = 1
    /\ uartTxBuffer[1].datalength = uartTxBuffer[1].size
    /\ BufSeq(uartTxBuffer[1]) = <<1, 2>>
    /\ UDRout[1] = <<>> /\ uartReadyTx[1] = 1 /\ uartBufferedTx[1] = 0
    /\ uartAddToTxBuffer(Chan(1), 1) = Chan(1)

====
